---- MODULE Spec2Model ----
(***************************************************************************)
(* Model of invoice_automation_system.py: the page scan of                 *)
(* InvoicePDFProcessor.split_pdf, the per-group document production of     *)
(* create_pdf_with_seal / _add_seals_to_pdf, and the batch loop of         *)
(* InvoiceAutomationSystem.process as driven by main().                    *)
(*                                                                         *)
(* Strings are sequences of one-character tokens.  The Japanese literals   *)
(* of the source are written as ASCII tokens: "nen" / "gatsu" for the      *)
(* year / month markers, "seikyusho" for the invoice suffix, "unknown"     *)
(* for the name sentinel, "(hikae)" for the copy marker, "kanrisha",       *)
(* "tantousha", "shain" for the administrator, handler and company seal.   *)
(* An Optional value is the empty sequence (None) or a non-empty one.      *)
(***************************************************************************)
EXTENDS Naturals, Sequences, FiniteSets, TLC

\* Longest document (number of pages) the model scans.
MaxPages == 3
\* Number of split_pdf calls made on one processor object.
MaxRuns == 2
\* Longest document of a whole main() run (split, then process).
MaxBatchPages == 2
\* len(text.strip()) < 100 marks a near-blank page.
BLANK_THRESHOLD == 100

None == <<>>

Some(x) == <<x>>

----------------------------------------------------------------------------
(* String helpers: int(), f"{n:02d}", str(n), str.split('-')[0]            *)

Digits == <<"0", "1", "2", "3", "4", "5", "6", "7", "8", "9">>

DigitVal(c) == CHOOSE v \in 0..9 : Digits[v + 1] = c

RECURSIVE ParseIntAcc(_, _)
ParseIntAcc(s, acc) ==
    IF s = <<>> THEN acc ELSE ParseIntAcc(Tail(s), acc * 10 + DigitVal(Head(s)))

\* int("06") = 6
ParseInt(s) == ParseIntAcc(s, 0)

RECURSIVE Str(_)
\* str(n): decimal digits without padding
Str(n) == IF n < 10 THEN <<Digits[n + 1]>> ELSE Str(n \div 10) \o <<Digits[(n % 10) + 1]>>

\* f"{n:02d}": zero-padded to at least two digits
Fmt02d(n) == IF n < 10 THEN <<"0">> \o Str(n) ELSE Str(n)

RECURSIVE SplitFirst(_, _)
\* s.split(sep)[0]: the part of s before the first sep (all of s if none)
SplitFirst(s, sep) ==
    IF s = <<>> \/ Head(s) = sep THEN <<>>
    ELSE <<Head(s)>> \o SplitFirst(Tail(s), sep)

RECURSIVE SplitRest(_, _)
\* the part of s after the first sep (empty if none)
SplitRest(s, sep) ==
    IF s = <<>> THEN <<>>
    ELSE IF Head(s) = sep THEN Tail(s)
    ELSE SplitRest(Tail(s), sep)

RECURSIVE Split(_, _)
\* s.split(sep): the list of the parts of s between the separators
Split(s, sep) ==
    IF \A i \in DOMAIN s : s[i] # sep THEN <<s>>
    ELSE <<SplitFirst(s, sep)>> \o Split(SplitRest(s, sep), sep)

\* s[2:]
DropTwo(s) == SubSeq(s, 3, Len(s))

\* re.sub(chars, repl, s) for a character class
ReSub(chars, repl, s) == [i \in DOMAIN s |-> IF s[i] \in chars THEN repl ELSE s[i]]

----------------------------------------------------------------------------
(* Page texts.  A text is described by what the source's searches find in  *)
(* it: the capture of the invoice-number pattern, the marker phrases it    *)
(* contains, its stripped length, the cleaned addressee line, and the      *)
(* captures of the closing-date pattern.                                   *)

Text(kind, number, markers, length, addressee, close) ==
    [kind |-> kind, number |-> number, markers |-> markers, length |-> length,
     addressee |-> addressee, close |-> close]

Date(y, m, d) == Some([year |-> y, month |-> m, day |-> d])

June30 == Date(<<"2", "0", "2", "5">>, <<"6">>, <<"3", "0">>)

July31 == Date(<<"2", "0", "2", "5">>, <<"0", "7">>, <<"3", "1">>)

NameA == <<"A">>

NameB == <<"B">>

\* page.extract_text() raises
TUnreadable == Text("error", None, {}, 0, None, None)

\* page.extract_text() returns None or ''
TEmpty == Text("empty", None, {}, 0, None, None)

\* a page with text but no invoice number
TNoNumber == Text("text", None, {}, 150, NameA, June30)

T1 == Text("text", <<"1">>, {}, 150, NameA, June30)

\* continuation page of invoice 1, carrying another name and date
T1Cont == Text("text", <<"1", "-", "2">>, {}, 150, NameB, July31)

\* invoice 1 without addressee line and without closing date
T1Bare == Text("text", <<"1">>, {}, 150, None, None)

\* another invoice for the same counterparty and closing date as T1
T2 == Text("text", <<"2">>, {}, 150, NameA, June30)

TCopy == Text("text", <<"1", "-", "2">>, {"(hikae)"}, 150, NameA, June30)

TNoTrans == Text("text", <<"2">>, {"tougetsu no otorihiki ha gozaimasen", "tougetsu no otorihiki"},
                 150, NameB, July31)

TBlank == Text("text", <<"2">>, {}, 50, NameB, None)

\* an invoice of another month whose name holds a reserved character
T3 == Text("text", <<"3">>, {}, 150, <<"C", "/", "D">>, July31)

PageTexts == {TUnreadable, TEmpty, TNoNumber, T1, T1Cont, T1Bare, T2, TCopy, TNoTrans, TBlank}

\* the page texts of the documents taken through a whole main() run
BatchTexts == {TUnreadable, T1, T1Bare, T2, T3, TNoTrans}

Docs(pool, n) == UNION {[1..k -> pool] : k \in 0..n}

----------------------------------------------------------------------------
(* Field extraction                                                        *)

\* _extract_company_name: the cleaned addressee, or the sentinel
_extract_company_name(text) ==
    IF text.addressee # None THEN text.addressee ELSE <<"unknown">>

\* _extract_close_date: (YYYY-MM-DD, YYMMDD) or (None, None)
_extract_close_date(text) ==
    IF text.close # None
    THEN LET year == text.close[1].year
             month == ParseInt(text.close[1].month)
             day == ParseInt(text.close[1].day)
         IN  <<year \o <<"-">> \o Fmt02d(month) \o <<"-">> \o Fmt02d(day),
               DropTwo(year) \o Fmt02d(month) \o Fmt02d(day)>>
    ELSE <<None, None>>

\* _extract_invoice_info: None, or Some(InvoiceInfo)
_extract_invoice_info(text, page_num) ==
    IF text.kind = "empty" THEN None
    ELSE IF text.number = None THEN None
    ELSE Some([invoice_number |-> text.number,
               company |-> _extract_company_name(text),
               pages |-> <<page_num>>,
               close_date_full |-> _extract_close_date(text)[1],
               close_date_short |-> _extract_close_date(text)[2],
               is_copy |-> "(hikae) full-width" \in text.markers \/ "(hikae)" \in text.markers,
               no_transaction |-> "tougetsu no otorihiki ha gozaimasen" \in text.markers
                                  \/ "tougetsu no otorihiki" \in text.markers,
               is_blank |-> text.length < BLANK_THRESHOLD])

----------------------------------------------------------------------------
VARIABLES
    doc,              \* the input PDF: the sequence of its page texts
    pc,               \* where main() / the processor is
    invoices,         \* InvoicePDFProcessor.invoices
    current_invoice,  \* split_pdf's local: None or Some(InvoiceInfo)
    page_num,         \* split_pdf's loop position (1-based)
    runs,             \* number of split_pdf calls started on this processor
    split_ok,         \* return value of the last split_pdf call
    first_result,     \* invoices as left by the first split_pdf call
    seal_images,      \* SealManager.seal_images: the seal file names loaded
    outlook_available,\* OUTLOOK_AVAILABLE
    os_windows,       \* the platform: Path.rename raises on an existing target
    dirs,             \* the directories that exist
    files,            \* the files that exist: a set of [path, content]
    temp_files,       \* the overlay files in the system temp directory
    output_dir,       \* process's resolved output folder
    idx,              \* process's loop position (1-based)
    results,          \* process's result list
    drafts,           \* the calls made to OutlookMailCreator.create_draft
    summary,          \* what main() reports at the end
    fault_log         \* per group of this process call: the step that raised

env_vars == <<doc, seal_images, outlook_available, os_windows>>

split_vars == <<invoices, current_invoice, page_num, runs, split_ok, first_result>>

batch_vars == <<dirs, files, temp_files, output_dir, idx, results, drafts, summary, fault_log>>

vars == <<pc, env_vars, split_vars, batch_vars>>

----------------------------------------------------------------------------
(* InvoicePDFProcessor.split_pdf                                           *)

\* a scan that skips copies only
IsSkipped_CopiesOnly(info) == info.is_copy

\* a scan that forgets the near-blank test
IsSkipped_NoBlankTest(info) == info.is_copy \/ info.no_transaction

\* the skip conditions of the scan loop
IsSkipped(info) == info.is_copy \/ info.no_transaction \/ info.is_blank

\* a base that keeps the hyphenated suffix
BaseNumber_WholeNumber(invoice_number) == invoice_number

\* invoice_number.split('-')[0]
BaseNumber(invoice_number) == SplitFirst(invoice_number, "-")

\* a scan that opens a group only when none is open
StartsNewInvoice_OnlyWhenNone(cur, info) == cur = None

\* "current_invoice is None or current_base != base_number"
StartsNewInvoice(cur, info) ==
    cur = None \/ BaseNumber(cur[1].invoice_number) # BaseNumber(info.invoice_number)

\* pages.insert(0, page_num)
AddPage_InFront(inv, p) == [inv EXCEPT !.pages = <<p>> \o @]

\* the continuation page's record replaces the open one, keeping the pages
AddPage_TakeNewHeader(inv, p) ==
    [_extract_invoice_info(doc[p], p)[1] EXCEPT !.pages = Append(inv.pages, p)]

\* current_invoice.pages.append(page_num)
AddPage(inv, p) == [inv EXCEPT !.pages = Append(@, p)]

\* an open invoice that is never appended
CloseInvoice_Drop(list, cur) == list

\* "if current_invoice: self.invoices.append(current_invoice)"
CloseInvoice(list, cur) == IF cur # None THEN Append(list, cur[1]) ELSE list

\* output_base_dir, a path (the list of its components)
Root == << <<"base">> >>

SealNames == {"kanrisha.png", "tantousha.png", "shain.png"}

\* InvoicePDFProcessor.__init__ / InvoiceAutomationSystem.__init__, and
\* the locals of process and main before they are assigned
Constructed ==
    /\ pc = "init"
    /\ invoices = <<>>
    /\ current_invoice = None
    /\ page_num = 0
    /\ runs = 0
    /\ split_ok = FALSE
    /\ first_result = <<>>
    /\ files = {}
    /\ temp_files = {}
    /\ output_dir = None
    /\ idx = 0
    /\ results = <<>>
    /\ drafts = <<>>
    /\ summary = None
    /\ fault_log = <<>>

\* a processor and a document to split, in a complete installation
Init ==
    /\ doc \in Docs(PageTexts, MaxPages)
    /\ seal_images = SealNames
    /\ outlook_available = FALSE
    /\ os_windows = FALSE
    /\ dirs = {Root}
    /\ Constructed

\* entry of split_pdf up to the first loop iteration
EnterSplit ==
    /\ pc' = "scan"
    /\ current_invoice' = None
    /\ page_num' = 1
    /\ runs' = runs + 1
    /\ UNCHANGED <<invoices, split_ok, first_result, env_vars, batch_vars>>

\* main() calls split_pdf on the freshly constructed processor
SplitStart ==
    /\ pc = "init"
    /\ EnterSplit

\* split_pdf is called again on the same processor and the same input
SplitAgain ==
    /\ pc = "returned"
    /\ runs < MaxRuns
    /\ EnterSplit

\* what the first call left in self.invoices
Remember(list) == IF runs = 1 THEN list ELSE first_result

\* one iteration of the page loop
ScanPage ==
    /\ pc = "scan"
    /\ page_num <= Len(doc)
    /\ doc[page_num].kind # "error"
    /\ LET invoice_info == _extract_invoice_info(doc[page_num], page_num)
       IN  IF invoice_info = None \/ IsSkipped(invoice_info[1])
           THEN UNCHANGED <<invoices, current_invoice>>
           ELSE IF StartsNewInvoice(current_invoice, invoice_info[1])
           THEN /\ invoices' = CloseInvoice(invoices, current_invoice)
                /\ current_invoice' = invoice_info
           ELSE /\ current_invoice' = Some(AddPage(current_invoice[1], page_num))
                /\ UNCHANGED invoices
    /\ page_num' = page_num + 1
    /\ UNCHANGED <<pc, runs, split_ok, first_result, env_vars, batch_vars>>

\* extract_text raises: the except clause logs and returns False
ScanError ==
    /\ pc = "scan"
    /\ page_num <= Len(doc)
    /\ doc[page_num].kind = "error"
    /\ pc' = "returned"
    /\ split_ok' = FALSE
    /\ current_invoice' = None
    /\ first_result' = Remember(invoices)
    /\ UNCHANGED <<invoices, page_num, runs, env_vars, batch_vars>>

\* end of the page stream: close the open invoice, return True
SplitEnd ==
    /\ pc = "scan"
    /\ page_num > Len(doc)
    /\ invoices' = CloseInvoice(invoices, current_invoice)
    /\ current_invoice' = None
    /\ pc' = "returned"
    /\ split_ok' = TRUE
    /\ first_result' = Remember(invoices')
    /\ UNCHANGED <<page_num, runs, env_vars, batch_vars>>

Next == SplitStart \/ SplitAgain \/ ScanPage \/ ScanError \/ SplitEnd

Spec == Init /\ [][Next]_vars

----------------------------------------------------------------------------
(* The file system                                                         *)

Exists(fs, path) == \E f \in fs : f.path = path

Content(fs, path) == (CHOOSE f \in fs : f.path = path).content

\* open(path, 'wb') and a completed write
WriteFile(fs, path, content) ==
    {f \in fs : f.path # path} \cup {[path |-> path, content |-> content]}

\* Path.unlink / os.unlink
Unlink(fs, path) == {f \in fs : f.path # path}

\* Path.parent
Parent(path) == SubSeq(path, 1, Len(path) - 1)

\* a mkdir that creates the folder only, not its parents
MkdirParents_LeafOnly(ds, path) == ds \cup {path}

\* Path.mkdir(parents=True, exist_ok=True)
MkdirParents(ds, path) == ds \cup {SubSeq(path, 1, n) : n \in 1..Len(path)}

\* a PDF: its pages, each a page of the input and the seal images drawn on it
Pdf(pages) == [complete |-> TRUE, pages |-> pages]

\* what open(path, 'wb') leaves when the write raises
Truncated == [complete |-> FALSE, pages |-> <<>>]

\* writer.add_page(reader.pages[page_num - 1]) for page_num in invoice.pages
ExtractPages(page_nums) == [i \in DOMAIN page_nums |-> [src |-> page_nums[i], seals |-> {}]]

----------------------------------------------------------------------------
(* InvoicePDFProcessor._generate_filename                                  *)

\* a character class without the vertical bar
INVALID_CHARS_NoBar == {"\\", "/", ":", "*", "?", "\"", "<", ">"}

\* FileConfig.INVALID_CHARS
INVALID_CHARS == {"\\", "/", ":", "*", "?", "\"", "<", ">", "|"}

\* a file name that never carries the date prefix
_generate_filename_NoPrefix(invoice) ==
    ReSub(INVALID_CHARS, "_", invoice.company) \o <<"seikyusho", ".pdf">>

\* [YYMMDD]<company with invalid characters replaced>seikyusho.pdf
_generate_filename(invoice) ==
    LET safe_company == ReSub(INVALID_CHARS, "_", invoice.company)
    IN  IF invoice.close_date_short # None
        THEN invoice.close_date_short \o safe_company \o <<"seikyusho", ".pdf">>
        ELSE safe_company \o <<"seikyusho", ".pdf">>

----------------------------------------------------------------------------
(* InvoicePDFProcessor._add_seals_to_pdf and create_pdf_with_seal.         *)
(* fault names the step of this call at which the environment raises.      *)

Faults == {"none", "read", "temp_write", "seal_read", "draw", "out_write",
           "overlay_unlink", "finish"}

\* a check that looks for the administrator seal only
SealsMissing_AdminOnly(seals) == "kanrisha.png" \notin seals

\* the mandatory-seal check: "if not kanrisha_seal or not tantousha_seal"
SealsMissing(seals) == "kanrisha.png" \notin seals \/ "tantousha.png" \notin seals

\* the steps that run for this seal lookup: the overlay is drawn, and its
\* file unlinked, only when both mandatory seals are loaded
PossibleFaults(seals) ==
    IF SealsMissing(seals) THEN Faults \ {"draw", "overlay_unlink"} ELSE Faults

\* the images drawn on the overlay: both mandatory seals, the company
\* seal when it is loaded
OverlaySeals(seals) ==
    {"kanrisha.png", "tantousha.png"} \cup (seals \cap {"shain.png"})

\* an overlay merged onto every page
MergeOverlay_EveryPage(pages, overlay) ==
    [i \in DOMAIN pages |-> [pages[i] EXCEPT !.seals = @ \cup overlay]]

\* page.merge_page(seal_pdf.pages[0]) for page_num == 0 only
MergeOverlay(pages, overlay) ==
    [i \in DOMAIN pages |-> IF i = 1 THEN [pages[i] EXCEPT !.seals = @ \cup overlay]
                                     ELSE pages[i]]

\* returns [ok, files, temp_files]; tmp names the overlay file it creates
_add_seals_to_pdf(fs, tmps, seals, input_pdf, output_pdf, tmp, fault) ==
    IF fault = "seal_read"
    THEN [ok |-> FALSE, files |-> fs, temp_files |-> tmps]
    ELSE IF SealsMissing(seals)
    THEN IF fault = "out_write"
         THEN [ok |-> FALSE, files |-> WriteFile(fs, output_pdf, Truncated), temp_files |-> tmps]
         ELSE [ok |-> TRUE,
               files |-> WriteFile(fs, output_pdf, Pdf(Content(fs, input_pdf).pages)),
               temp_files |-> tmps]
    ELSE IF fault = "draw"
    THEN [ok |-> FALSE, files |-> fs, temp_files |-> tmps \cup {tmp}]
    ELSE IF fault = "out_write"
    THEN [ok |-> FALSE, files |-> WriteFile(fs, output_pdf, Truncated),
          temp_files |-> tmps \cup {tmp}]
    ELSE [ok |-> TRUE,
          files |-> WriteFile(fs, output_pdf,
                        Pdf(MergeOverlay(Content(fs, input_pdf).pages, OverlaySeals(seals)))),
          temp_files |-> IF fault = "overlay_unlink" THEN tmps \cup {tmp} ELSE tmps]

\* temp_pdf.rename(final_pdf): [raised, files]
Rename(fs, from, to, windows) ==
    IF windows /\ Exists(fs, to)
    THEN [raised |-> TRUE, files |-> fs]
    ELSE [raised |-> FALSE, files |-> WriteFile(Unlink(fs, from), to, Content(fs, from))]

\* returns [path, files, temp_files]; path is None on failure
create_pdf_with_seal(fs, tmps, seals, windows, invoice, out_dir, tmp, fault) ==
    LET filename == _generate_filename(invoice)
        temp_pdf == Append(out_dir, <<"temp_">> \o filename)
        final_pdf == Append(out_dir, filename)
        written == WriteFile(fs, temp_pdf, Pdf(ExtractPages(invoice.pages)))
        sealed == _add_seals_to_pdf(written, tmps, seals, temp_pdf, final_pdf, tmp, fault)
        renamed == Rename(sealed.files, temp_pdf, final_pdf, windows)
    IN  IF fault = "read"
        THEN [path |-> None, files |-> fs, temp_files |-> tmps]
        ELSE IF fault = "temp_write"
        THEN [path |-> None, files |-> WriteFile(fs, temp_pdf, Truncated), temp_files |-> tmps]
        ELSE IF fault = "finish"
        THEN [path |-> None, files |-> sealed.files, temp_files |-> sealed.temp_files]
        ELSE IF sealed.ok
        THEN [path |-> final_pdf, files |-> Unlink(sealed.files, temp_pdf),
              temp_files |-> sealed.temp_files]
        ELSE IF renamed.raised
        THEN [path |-> None, files |-> sealed.files, temp_files |-> sealed.temp_files]
        ELSE [path |-> final_pdf, files |-> renamed.files, temp_files |-> sealed.temp_files]

----------------------------------------------------------------------------
(* InvoiceAutomationSystem.process                                         *)

\* the year-month folder name of a closing date YYYY-MM-DD
MonthFolderName(close_date_full) ==
    LET parts == Split(close_date_full, "-")
        year == parts[1]
        month_int == ParseInt(parts[2])
    IN  year \o <<"nen">> \o Str(month_int) \o <<"gatsu">>

\* a folder named after the last invoice of the run
FolderInvoice_Last(list) == list[Len(list)]

\* the invoice whose closing date names the folder of the run
FolderInvoice(list) == list[1]

\* "output_base_dir / month_folder_name" or output_base_dir
ResolveOutputDir(base, list) ==
    IF list # <<>> /\ FolderInvoice(list).close_date_full # None
    THEN Append(base, MonthFolderName(FolderInvoice(list).close_date_full))
    ELSE base

\* a whole main() run: any document, seal folder, platform and storage root
InitBatch ==
    /\ doc \in Docs(BatchTexts, MaxBatchPages)
    /\ seal_images \in {SealNames, {"kanrisha.png", "tantousha.png"},
                        {"kanrisha.png"}, {"tantousha.png", "shain.png"}}
    /\ os_windows \in BOOLEAN
    /\ outlook_available \in (IF os_windows THEN BOOLEAN ELSE {FALSE})
    /\ dirs \in {{}, {Root}, {Root, Append(Root, MonthFolderName(_extract_close_date(T1)[1]))}}
    /\ Constructed

\* main(): split_pdf returned False, sys.exit(1)
MainExit ==
    /\ pc = "returned"
    /\ ~split_ok
    /\ pc' = "exit"
    /\ UNCHANGED <<env_vars, split_vars, batch_vars>>

\* process up to the first loop iteration: resolve and create the folder
ProcessStart ==
    /\ pc = "returned"
    /\ split_ok
    /\ output_dir' = ResolveOutputDir(Root, invoices)
    /\ dirs' = IF output_dir' \in dirs THEN dirs ELSE MkdirParents(dirs, output_dir')
    /\ results' = <<>>
    /\ fault_log' = <<>>
    /\ idx' = 1
    /\ pc' = "process"
    /\ UNCHANGED <<env_vars, split_vars, files, temp_files, drafts, summary>>

\* the record appended for a group: "if pdf_path: ... else: ..."
ResultRecord(invoice, pdf_path) ==
    IF pdf_path # None
    THEN [company |-> invoice.company, pdf |-> pdf_path, success |-> TRUE]
    ELSE [company |-> invoice.company, pdf |-> None, success |-> FALSE]

\* a hand-off made for failed groups too
DraftsAfter_FailedToo(ds, available, invoice, pdf_path) ==
    IF available
    THEN Append(ds, [company_name |-> invoice.company,
                     pdf_path |-> pdf_path,
                     close_date_full |-> invoice.close_date_full])
    ELSE ds

\* "if pdf_path: if OUTLOOK_AVAILABLE: self.mail_creator.create_draft(...)"
DraftsAfter(ds, available, invoice, pdf_path) ==
    IF pdf_path # None /\ available
    THEN Append(ds, [company_name |-> invoice.company,
                     pdf_path |-> pdf_path,
                     close_date_full |-> invoice.close_date_full])
    ELSE ds

\* a loop that returns at the first group whose document fails
ProcessInvoice_AbortOnFailure ==
    /\ pc = "process"
    /\ idx <= Len(invoices)
    /\ \E fault \in PossibleFaults(seal_images) :
          LET invoice == invoices[idx]
              made == create_pdf_with_seal(files, temp_files, seal_images, os_windows,
                                           invoice, output_dir, idx, fault)
          IN  /\ files' = made.files
              /\ temp_files' = made.temp_files
              /\ drafts' = DraftsAfter(drafts, outlook_available, invoice, made.path)
              /\ results' = IF made.path # None
                            THEN Append(results, ResultRecord(invoice, made.path))
                            ELSE results
              /\ fault_log' = Append(fault_log, fault)
              /\ pc' = IF made.path # None THEN pc ELSE "processed"
    /\ idx' = idx + 1
    /\ UNCHANGED <<env_vars, split_vars, dirs, output_dir, summary>>

\* one iteration of the invoice loop
ProcessInvoice ==
    /\ pc = "process"
    /\ idx <= Len(invoices)
    /\ \E fault \in PossibleFaults(seal_images) :
          LET invoice == invoices[idx]
              made == create_pdf_with_seal(files, temp_files, seal_images, os_windows,
                                           invoice, output_dir, idx, fault)
          IN  /\ files' = made.files
              /\ temp_files' = made.temp_files
              /\ drafts' = DraftsAfter(drafts, outlook_available, invoice, made.path)
              /\ results' = Append(results, ResultRecord(invoice, made.path))
              /\ fault_log' = Append(fault_log, fault)
    /\ idx' = idx + 1
    /\ UNCHANGED <<pc, env_vars, split_vars, dirs, output_dir, summary>>

\* "return results"
ProcessReturn ==
    /\ pc = "process"
    /\ idx > Len(invoices)
    /\ pc' = "processed"
    /\ UNCHANGED <<env_vars, split_vars, batch_vars>>

\* sum(1 for r in results if r['success'])
Succeeded(rs) == Cardinality({i \in DOMAIN rs : rs[i].success})

\* main(): the final summary
MainSummary ==
    /\ pc = "processed"
    /\ summary' = Some([processed |-> Len(results),
                        succeeded |-> Succeeded(results),
                        final_output_dir |-> IF results # <<>> /\ results[1].pdf # None
                                             THEN Parent(results[1].pdf)
                                             ELSE Root])
    /\ pc' = "done"
    /\ UNCHANGED <<env_vars, split_vars, dirs, files, temp_files, output_dir, idx, results,
                   drafts, fault_log>>

NextBatch ==
    \/ SplitStart \/ ScanPage \/ ScanError \/ SplitEnd
    \/ MainExit \/ ProcessStart \/ ProcessInvoice \/ ProcessReturn \/ MainSummary

SpecBatch == InitBatch /\ [][NextBatch]_vars

----------------------------------------------------------------------------
(* main() runs over one-page documents whose addressee line ranges over    *)
(* short names made of reserved and ordinary characters                    *)

MaxNameLen == 2

\* the characters an addressee line is made of here: every character of
\* FileConfig.INVALID_CHARS, a letter and the replacement character
NameChars == {"\\", "/", ":", "*", "?", "\"", "<", ">", "|", "A", "_"}

Names == UNION {[1..k -> NameChars] : k \in 1..MaxNameLen}

Dec5 == Date(<<"2", "0", "2", "4">>, <<"1", "2">>, <<"5">>)

\* a page of invoice 1 addressed to name (None: no addressee line)
NameTexts ==
    {Text("text", <<"1">>, {}, 150, name, close) :
        name \in Names \cup {None}, close \in {None, June30, Dec5}}

InitNames ==
    /\ doc \in {<<t>> : t \in NameTexts \cup {TUnreadable}}
    /\ seal_images = SealNames
    /\ os_windows = FALSE
    /\ outlook_available = FALSE
    /\ dirs = {Root}
    /\ Constructed

SpecNames == InitNames /\ [][NextBatch]_vars

----------------------------------------------------------------------------
(* process called again on the same system, over what earlier calls left   *)

MaxRerunPages == 1

\* the page texts of the documents processed repeatedly
RerunTexts == {TUnreadable, T1, T1Bare}

InitRerun ==
    /\ doc \in Docs(RerunTexts, MaxRerunPages)
    /\ seal_images = SealNames
    /\ os_windows \in BOOLEAN
    /\ outlook_available = FALSE
    /\ dirs \in {{}, {Root}, {Root, Append(Root, MonthFolderName(_extract_close_date(T1)[1]))}}
    /\ Constructed

\* process(input_pdf, output_base_dir) once more, after it has returned
ProcessAgain ==
    /\ pc = "processed"
    /\ output_dir' = ResolveOutputDir(Root, invoices)
    /\ dirs' = IF output_dir' \in dirs THEN dirs ELSE MkdirParents(dirs, output_dir')
    /\ results' = <<>>
    /\ fault_log' = <<>>
    /\ idx' = 1
    /\ pc' = "process"
    /\ UNCHANGED <<env_vars, split_vars, files, temp_files, drafts, summary>>

NextRerun ==
    \/ SplitStart \/ ScanPage \/ ScanError \/ SplitEnd
    \/ MainExit \/ ProcessStart \/ ProcessInvoice \/ ProcessReturn \/ MainSummary
    \/ ProcessAgain

SpecRerun == InitRerun /\ [][NextRerun]_vars

----------------------------------------------------------------------------
(* Vocabulary of the properties, read off the input document               *)

Range(s) == {s[i] : i \in DOMAIN s}

\* the record page p yields (None if the page is unreadable or unrecognised)
Rec(p) == IF doc[p].kind = "error" THEN None ELSE _extract_invoice_info(doc[p], p)

\* page p yielded a record and none of its three flags is set
Eligible(p) ==
    /\ Rec(p) # None
    /\ ~Rec(p)[1].is_copy
    /\ ~Rec(p)[1].no_transaction
    /\ ~Rec(p)[1].is_blank

\* the part of page p's invoice number before the first '-'
PageBase(p) == SplitFirst(Rec(p)[1].invoice_number, "-")

\* closed groups and the open one
Groups == Range(invoices) \cup Range(current_invoice)

\* the scan loop handles page p in this step
Scans(p) == pc = "scan" /\ page_num = p /\ p <= Len(doc) /\ page_num' = p + 1

SplitSucceeded == pc = "returned" /\ split_ok

----------------------------------------------------------------------------
\* C1: a page index is listed in a group only if the page yielded a record
\* and none of is_copy, no_transaction, is_blank is set; scanning a page that
\* fails either condition leaves the closed groups and the open group as
\* they were.
C1_OnlyEligiblePagesGrouped ==
    [][ /\ \A g \in Groups' : \A p \in Range(g.pages) : Eligible(p)
        /\ \A p \in DOMAIN doc :
              (Scans(p) /\ ~Eligible(p)) => UNCHANGED <<invoices, current_invoice>> ]_vars

C1_Witness ==
    /\ SplitSucceeded
    /\ invoices # <<>>
    /\ \E p, q, r \in DOMAIN doc :
          /\ Rec(p) = None /\ doc[p].kind = "text"
          /\ Rec(q) # None /\ Rec(q)[1].is_blank
          /\ Eligible(r)

\* C2: two eligible pages with the same base and no eligible page of another
\* base between them are in one group of the result, whatever discarded or
\* unrecognised pages lie between them.
C2_Continuity ==
    SplitSucceeded =>
        \A i, j \in DOMAIN doc :
            ( /\ i < j
              /\ Eligible(i) /\ Eligible(j)
              /\ PageBase(i) = PageBase(j)
              /\ \A k \in (i + 1)..(j - 1) : Eligible(k) => PageBase(k) = PageBase(i) )
            => \E n \in DOMAIN invoices :
                  {i, j} \subseteq Range(invoices[n].pages)

C2_Witness ==
    /\ SplitSucceeded
    /\ runs = 1
    /\ Len(doc) = 3
    /\ Eligible(1) /\ ~Eligible(2) /\ Rec(2) # None /\ Eligible(3)
    /\ Rec(1)[1].invoice_number # Rec(3)[1].invoice_number
    /\ Len(invoices) = 1
    /\ invoices[1].pages = <<1, 3>>

\* C3: at every point of the scan and in the result, every page of a group
\* has the base invoice number of the group's first page.
C3_OneBasePerGroup ==
    \A g \in Groups : \A p \in Range(g.pages) : PageBase(p) = PageBase(g.pages[1])

C3_Witness ==
    \E g \in Groups :
        /\ Len(g.pages) = 2
        /\ Rec(g.pages[1])[1].invoice_number # Rec(g.pages[2])[1].invoice_number

\* C4: at every point of the scan and in the result, the page indices of
\* each group are strictly increasing.
C4_PagesIncreasing ==
    \A g \in Groups : \A a, b \in DOMAIN g.pages : a < b => g.pages[a] < g.pages[b]

C4_Witness ==
    \E g \in Groups : Len(g.pages) = 3 /\ pc = "scan"

\* the scan step for page p extends the open group
Extends(p) ==
    /\ Scans(p)
    /\ Eligible(p)
    /\ current_invoice # None
    /\ PageBase(p) = SplitFirst(current_invoice[1].invoice_number, "-")

\* C5: extending the open group changes only its page list; name and closing
\* date (full and short) stay those of the page that opened the group.
C5_ExtendKeepsHeader ==
    [][ \A p \in DOMAIN doc : Extends(p) =>
          /\ invoices' = invoices
          /\ current_invoice' # None
          /\ current_invoice'[1] = [current_invoice[1] EXCEPT !.pages = @ \o <<p>>]
          /\ LET opener == Rec(current_invoice[1].pages[1])[1]
             IN  /\ current_invoice'[1].company = opener.company
                 /\ current_invoice'[1].close_date_full = opener.close_date_full
                 /\ current_invoice'[1].close_date_short = opener.close_date_short ]_vars

C5_Witness ==
    /\ current_invoice # None
    /\ Len(current_invoice[1].pages) = 2
    /\ LET last == Rec(current_invoice[1].pages[2])[1]
       IN  /\ last.company # current_invoice[1].company
           /\ last.close_date_full # None
           /\ last.close_date_full # current_invoice[1].close_date_full

\* C6: every group of the result carries the closing date of its earliest
\* page that carried one, also when its first page carried none.
C6_FirstSuppliedDate ==
    SplitSucceeded =>
        \A n \in DOMAIN invoices : \A k \in DOMAIN invoices[n].pages :
            LET pages == invoices[n].pages
            IN  ( /\ Rec(pages[k])[1].close_date_full # None
                  /\ \A e \in 1..(k - 1) : Rec(pages[e])[1].close_date_full = None )
                => /\ invoices[n].close_date_full = Rec(pages[k])[1].close_date_full
                   /\ invoices[n].close_date_short = Rec(pages[k])[1].close_date_short

\* C7: after any number of split_pdf runs on the same input the group list
\* (number of groups, each group's base and pages) is the one the first run
\* left.
C7_RerunSameGroups ==
    pc = "returned" =>
        /\ Len(invoices) = Len(first_result)
        /\ \A n \in DOMAIN invoices :
              /\ n \in DOMAIN first_result
              /\ invoices[n].pages = first_result[n].pages
              /\ SplitFirst(invoices[n].invoice_number, "-")
                    = SplitFirst(first_result[n].invoice_number, "-")

----------------------------------------------------------------------------
\* every page of the document yielded a record with one of the three flags
AllDiscardable ==
    \A p \in DOMAIN doc :
        /\ Rec(p) # None
        /\ Rec(p)[1].is_copy \/ Rec(p)[1].no_transaction \/ Rec(p)[1].is_blank

\* C8: for a document of discardable pages only, split_pdf returns True with
\* no group, the process run that follows writes no document and returns no
\* result record, and the summary reports 0 succeeded of 0 processed.
C8_AllDiscardableIsEmptySuccess ==
    AllDiscardable =>
        /\ pc = "returned" => split_ok
        /\ pc \in {"returned", "process", "processed", "done"} =>
              /\ invoices = <<>>
              /\ results = <<>>
              /\ files = {}
        /\ pc # "exit"
        /\ pc = "done" => /\ summary[1].processed = 0
                          /\ summary[1].succeeded = 0

C8_Witness ==
    /\ pc = "done"
    /\ Len(doc) = 2
    /\ \A p \in DOMAIN doc : Rec(p) # None /\ Rec(p)[1].no_transaction
    /\ summary # None

\* the folder root/<year>nen<month>gatsu of a closing date, root without one
FolderOf(close_date_full) ==
    IF close_date_full # None
    THEN Append(Root, MonthFolderName(close_date_full))
    ELSE Root

C10_OneDocumentPerGroup ==
    pc = "done" =>
        \A i \in DOMAIN results :
            results[i].success =>
                /\ Exists(files, results[i].pdf)
                /\ Content(files, results[i].pdf).complete
                /\ [k \in DOMAIN Content(files, results[i].pdf).pages |->
                        Content(files, results[i].pdf).pages[k].src] = invoices[i].pages
                /\ \A j \in DOMAIN results :
                      (j # i /\ results[j].success) => results[j].pdf # results[i].pdf

----------------------------------------------------------------------------
(* Vocabulary of the properties of process                                 *)

\* the invoice loop handles group i in this step
Processes(i) == pc = "process" /\ idx = i /\ i <= Len(invoices) /\ idx' = i + 1

\* the administrator seal or the handler seal is absent from the lookup
MandatorySealAbsent == ~({"kanrisha.png", "tantousha.png"} \subseteq seal_images)

\* the pages of group g as they are in the input: in order, nothing drawn
Unstamped(g) == [k \in DOMAIN g.pages |-> [src |-> g.pages[k], seals |-> {}]]

\* the last component of a path
FileName(path) == path[Len(path)]

----------------------------------------------------------------------------
\* C11: with the administrator or the handler seal absent, a group whose
\* production meets no I/O error is reported with success and a path, and the
\* document at that path is the group's page sequence unchanged: all pages,
\* same order, no overlay on any page.
C11_MissingSealPassthrough ==
    [][ \A i \in DOMAIN invoices :
          (Processes(i) /\ MandatorySealAbsent /\ fault_log'[i] = "none") =>
              /\ results'[i].success
              /\ results'[i].pdf # None
              /\ Parent(results'[i].pdf) = output_dir
              /\ Exists(files', results'[i].pdf)
              /\ Content(files', results'[i].pdf) =
                    [complete |-> TRUE, pages |-> Unstamped(invoices[i])] ]_vars

C11_Witness ==
    /\ pc = "done"
    /\ seal_images = {"kanrisha.png"}
    /\ fault_log = <<"none">>
    /\ Len(invoices[1].pages) = 2
    /\ results[1].success
    /\ Content(files, results[1].pdf).pages = Unstamped(invoices[1])

----------------------------------------------------------------------------
\* what the caller of the compositor gets for group g under a seal lookup
\* when no step raises: the value _add_seals_to_pdf returns and the record
\* process appends
Outcome(g, seals) ==
    LET filename == _generate_filename(g)
        temp_pdf == Append(output_dir, <<"temp_">> \o filename)
        staged == WriteFile(files, temp_pdf, Pdf(ExtractPages(g.pages)))
        made == create_pdf_with_seal(files, temp_files, seals, os_windows, g,
                                     output_dir, idx, "none")
    IN  [returned |-> _add_seals_to_pdf(staged, temp_files, seals, temp_pdf,
                                        Append(output_dir, filename), idx, "none").ok,
         record |-> ResultRecord(g, made.path)]

\* C12: when a mandatory seal is missing, the outcome returned for the group
\* whose stamps were skipped differs, in the value _add_seals_to_pdf returns
\* or in the group's result record, from the outcome the same group gets
\* when it is stamped.
C12_SkippedIsDistinguishable ==
    (pc = "process" /\ idx <= Len(invoices) /\ MandatorySealAbsent) =>
        Outcome(invoices[idx], seal_images) # Outcome(invoices[idx], SealNames)

----------------------------------------------------------------------------
\* C13: with both mandatory seals present, a group whose production meets no
\* error gets a document with as many pages as the group lists, in the same
\* order; the overlay (both mandatory seals, the company seal when present)
\* is on the first page and nothing is drawn on any later page.
C13_OverlayOnFirstPageOnly ==
    [][ \A i \in DOMAIN invoices :
          ( /\ Processes(i)
            /\ ~MandatorySealAbsent
            /\ fault_log'[i] \in {"none", "overlay_unlink"} ) =>
              /\ results'[i].pdf # None
              /\ LET out == Content(files', results'[i].pdf).pages
                 IN  /\ Len(out) = Len(invoices[i].pages)
                     /\ \A k \in DOMAIN out : out[k].src = invoices[i].pages[k]
                     /\ {"kanrisha.png", "tantousha.png"} \subseteq out[1].seals
                     /\ out[1].seals \subseteq seal_images
                     /\ \A k \in DOMAIN out : k >= 2 => out[k].seals = {} ]_vars

C13_Witness ==
    /\ pc = "done"
    /\ seal_images = {"kanrisha.png", "tantousha.png", "shain.png"}
    /\ fault_log = <<"none">>
    /\ invoices[1].pages = <<1, 2>>
    /\ Content(files, results[1].pdf).pages =
          << [src |-> 1, seals |-> {"kanrisha.png", "tantousha.png", "shain.png"}],
             [src |-> 2, seals |-> {}] >>

----------------------------------------------------------------------------
\* C14: no temporary artifact of a group's production exists once its call
\* has returned, whether it succeeded or failed: no overlay file made by
\* _add_seals_to_pdf and no temp_<filename> file made by create_pdf_with_seal.
C14_NoTemporaryArtifactSurvives ==
    /\ temp_files = {}
    /\ \A f \in files : FileName(f.path)[1] # "temp_"

----------------------------------------------------------------------------
\* the steps whose failure leaves the group without a document: reading the
\* input, writing the extracted pages, removing or renaming the staged file
DocumentFailures == {"read", "temp_write", "finish"}

\* C15: whatever steps fail for whichever groups, process returns one result
\* record per group, in group order; a group whose document could not be
\* produced has success = FALSE and no path, a group that met no failure has
\* success = TRUE, every group is attempted (also after a failed one), and a
\* step of the loop only appends a record to those already there.
C15_FailureNeverAborts ==
    /\ pc \in {"processed", "done"} =>
          /\ Len(results) = Len(invoices)
          /\ Len(fault_log) = Len(invoices)
          /\ \A i \in DOMAIN invoices :
                /\ results[i].company = invoices[i].company
                /\ results[i].success <=> results[i].pdf # None
                /\ fault_log[i] \in DocumentFailures => ~results[i].success
                /\ fault_log[i] = "none" => results[i].success
    /\ pc = "process" => Len(results) = idx - 1 /\ idx <= Len(invoices) + 1

C15_Witness ==
    /\ pc = "done"
    /\ Len(invoices) = 2
    /\ fault_log = <<"temp_write", "none">>
    /\ ~results[1].success
    /\ results[2].success
    /\ Exists(files, results[2].pdf)

----------------------------------------------------------------------------
\* what create_draft is called with for group g whose document is at path
HandOff(g, path) ==
    [company_name |-> g.company, pdf_path |-> path, close_date_full |-> g.close_date_full]

\* C16 as stated: every successfully processed group, and no failed group,
\* has been handed with its name, document path and closing date to the
\* mail-drafting collaborator, in group order.
C16_HandOffEachSuccess ==
    pc \in {"processed", "done"} =>
        /\ Len(drafts) = Cardinality({i \in DOMAIN results : results[i].success})
        /\ \A i \in DOMAIN results :
              results[i].success <=>
                  \E d \in DOMAIN drafts : drafts[d] = HandOff(invoices[i], results[i].pdf)

\* C16 amended: when the Outlook integration is available, the step that
\* processes a group hands (name, document path, closing date) to the
\* mail-drafting collaborator exactly if the group succeeded, and the
\* complete document is then at that path; when the integration is not
\* available, no group is handed over.
C16_HandOffWhenAvailable ==
    [][ \A i \in DOMAIN invoices :
          Processes(i) =>
              IF outlook_available /\ results'[i].success
              THEN /\ drafts' = Append(drafts, HandOff(invoices[i], results'[i].pdf))
                   /\ Exists(files', results'[i].pdf)
                   /\ Content(files', results'[i].pdf).complete
              ELSE drafts' = drafts ]_vars

C16_Witness ==
    /\ pc = "done"
    /\ outlook_available
    /\ Len(invoices) = 2
    /\ fault_log = <<"read", "none">>
    /\ drafts = <<HandOff(invoices[2], results[2].pdf)>>
    /\ Exists(files, drafts[1].pdf_path)

----------------------------------------------------------------------------
\* the characters a file name must not contain: \ / : * ? " < > |
Reserved == {"\\", "/", ":", "*", "?", "\"", "<", ">", "|"}

\* the part of file name fn that stands for a counterparty name of length n:
\* what precedes the suffix and the extension
NamePart(fn, n) == SubSeq(fn, Len(fn) - 1 - n, Len(fn) - 2)

\* C17: for every counterparty name, the file name of the group's document
\* contains no reserved character; in the name's place it has the name with
\* each reserved character replaced by '_' and every other character kept;
\* a name without reserved characters is used unchanged, and generating the
\* file name again from the sanitized name gives the same file name.
C17_SanitizationTotalIdempotent ==
    [][ \A i \in DOMAIN invoices :
          (Processes(i) /\ results'[i].success) =>
              LET name == invoices[i].company
                  fn == FileName(results'[i].pdf)
                  safe == NamePart(fn, Len(name))
              IN  /\ \A k \in DOMAIN fn : fn[k] \notin Reserved
                  /\ Len(safe) = Len(name)
                  /\ \A k \in DOMAIN name :
                        safe[k] = IF name[k] \in Reserved THEN "_" ELSE name[k]
                  /\ (\A k \in DOMAIN name : name[k] \notin Reserved) => safe = name
                  /\ _generate_filename([invoices[i] EXCEPT !.company = safe]) = fn ]_vars

C17_Witness ==
    /\ pc = "done"
    /\ Len(invoices) = 1
    /\ invoices[1].company = <<"|", "A">>
    /\ results[1].success
    /\ NamePart(FileName(results[1].pdf), 2) = <<"_", "A">>

----------------------------------------------------------------------------
\* name with '_' in place of each reserved character
Sanitized(name) == [k \in DOMAIN name |-> IF name[k] \in Reserved THEN "_" ELSE name[k]]

\* YYMMDD of a closing date YYYY-MM-DD
ShortForm(full) == <<full[3], full[4], full[6], full[7], full[9], full[10]>>

\* C18: the file name of a group's document is the six-digit short form of
\* the group's closing date, the sanitized counterparty name, the invoice
\* suffix and the extension when the group has a closing date, and the
\* sanitized name, the suffix and the extension with nothing in front when
\* it has none.
C18_FileNameFormat ==
    [][ \A i \in DOMAIN invoices :
          (Processes(i) /\ results'[i].success) =>
              LET g == invoices[i]
                  fn == FileName(results'[i].pdf)
              IN  IF g.close_date_full # None
                  THEN /\ Len(g.close_date_full) = 10
                       /\ fn = ShortForm(g.close_date_full) \o Sanitized(g.company)
                                  \o <<"seikyusho", ".pdf">>
                  ELSE fn = Sanitized(g.company) \o <<"seikyusho", ".pdf">> ]_vars

C18_Witness ==
    /\ pc = "done"
    /\ Len(invoices) = 1
    /\ doc[1].close = Dec5
    /\ results[1].success
    /\ FileName(results[1].pdf) =
          <<"2", "4", "1", "2", "0", "5", "A", "_", "seikyusho", ".pdf">>

----------------------------------------------------------------------------
\* a call of process resolves and prepares its folder in this step
ResolvesFolder == pc \in {"returned", "processed"} /\ pc' = "process"

\* path and every directory above it
WithParents(path) == {SubSeq(path, 1, n) : n \in 1..Len(path)}

\* C19: the directory step of process leaves the resolved folder existing;
\* a folder that already exists is reused and nothing is created, a missing
\* one is created together with its missing parents and nothing else is;
\* a repeated call with the same root and closing month resolves the same
\* folder and creates no directory at all.
C19_DirectoryResolutionIdempotent ==
    [][ ResolvesFolder =>
          /\ output_dir' \in dirs'
          /\ output_dir' \in dirs => dirs' = dirs
          /\ output_dir' \notin dirs => dirs' = dirs \cup WithParents(output_dir')
          /\ pc = "processed" => (output_dir' = output_dir /\ dirs' = dirs) ]_vars

C19_Witness ==
    /\ pc = "process"
    /\ idx = 1
    /\ files # {}
    /\ Len(output_dir) = Len(Root) + 1
    /\ dirs = WithParents(output_dir)

----------------------------------------------------------------------------
\* the places (group, position) at which page p is listed in the result
Places(p) ==
    {pl \in (DOMAIN invoices) \X (DOMAIN doc) :
        /\ pl[2] \in DOMAIN invoices[pl[1]].pages
        /\ invoices[pl[1]].pages[pl[2]] = p}

\* C20: when a split_pdf run on a new processor has ended without error,
\* every page that yielded a record with no flag set is listed in exactly
\* one group, exactly once, and no group is left open; the groups are in the
\* order of their first pages; and two consecutive groups have different
\* bases (a base that comes back after another one is a group of its own).
C20_PartitionInPageOrder ==
    (SplitSucceeded /\ runs = 1) =>
        /\ current_invoice = None
        /\ \A p \in DOMAIN doc : Eligible(p) => Cardinality(Places(p)) = 1
        /\ \A n \in DOMAIN invoices : invoices[n].pages # <<>>
        /\ \A n \in DOMAIN invoices :
              n < Len(invoices) =>
                  /\ invoices[n].pages[1] < invoices[n + 1].pages[1]
                  /\ PageBase(invoices[n].pages[1]) # PageBase(invoices[n + 1].pages[1])

C20_Witness ==
    /\ SplitSucceeded
    /\ runs = 1
    /\ Len(doc) = 3
    /\ Len(invoices) = 3
    /\ PageBase(1) = PageBase(3)
    /\ PageBase(1) # PageBase(2)
    /\ \A p \in 1..3 : invoices[p].pages = <<p>>

----------------------------------------------------------------------------
\* the steps inside _add_seals_to_pdf whose exception makes it return False:
\* reading the staged file, drawing the overlay, writing the output
CompositingFailures == {"seal_read", "draw", "out_write"}

\* the staged file temp_<filename> of the document at path
StagedPath(path) == Append(Parent(path), <<"temp_">> \o FileName(path))

\* C21: with both mandatory seals present, a group whose compositing fails
\* with an exception is reported with success and a path; once its step is
\* done the staged temp_<filename> file has been renamed to that path, so
\* the document there is the group's unstamped page sequence.
C21_SealFailureFallsBack ==
    \A i \in DOMAIN results :
        (~MandatorySealAbsent /\ fault_log[i] \in CompositingFailures) =>
            /\ results[i].success
            /\ results[i].pdf # None
            /\ i = Len(results) =>
                  /\ Exists(files, results[i].pdf)
                  /\ Content(files, results[i].pdf) =
                        [complete |-> TRUE, pages |-> Unstamped(invoices[i])]
                  /\ ~Exists(files, StagedPath(results[i].pdf))

====
